---- MODULE Spec2Model ----
(***************************************************************************)
(* A model of the promptoon service: the POST /generate_prompt handler,    *)
(* its two upstream clients (Gemini, Doubao), the image normalizer and the *)
(* API-key codec.  Two builds of the service are in the repository:        *)
(*   "python" : src/python/promptoon.py                                    *)
(*   "root"   : src/promptoon.py                                           *)
(* Line numbers in comments refer to src/python/promptoon.py unless the    *)
(* comment names the root build.                                           *)
(*                                                                         *)
(* Conventions                                                             *)
(*   - a Python string that the code takes apart (a filename, a model      *)
(*     text, a key token) is a sequence of tokens;                         *)
(*   - an optional value (None, a JSON null, a missing form field) is a    *)
(*     sequence of length 0, a present value v is <<v>>;                   *)
(*   - a function that can raise returns [ok |-> FALSE, exc |-> name].     *)
(***************************************************************************)
EXTENDS Integers, Sequences, FiniteSets, TLC

\* ---------------------------------------------------------------- bounds
\* Number of requests in flight in the concurrent specification.
NumReq == 2
\* Number of hex ids uuid4 can draw from in the model.
NumIds == 3
\* Number of calendar days the clock can reach.
MaxDay == 2

Requests == 1..NumReq
Ids == 1..NumIds
Days == 1..MaxDay

Builds == {"python", "root"}

None == <<>>
Some(v) == <<v>>

\* ------------------------------------------------------ API key codec
\* The plaintext keys a client may have encrypted.
ApiKeys == {"k1"}

\* encrypt_api_key, lines 50-52: a Fernet token carries the payload and an
\* authentication tag computed with ENCRYPTION_KEY.
encrypt_api_key(api_key) == <<"fernet", api_key, "hmac_ok">>

\* decrypt_api_key, lines 55-57: Fernet.decrypt raises InvalidToken unless the
\* token is well formed and its tag verifies.
decrypt_api_key(token) ==
    IF Len(token) = 3 /\ token[1] = "fernet" /\ token[3] = "hmac_ok"
    THEN [ok |-> TRUE, value |-> token[2]]
    ELSE [ok |-> FALSE, exc |-> "InvalidToken"]

\* ------------------------------------------------------------ filenames
\* Index of the last occurrence of token c in s, 0 when there is none
\* (str.rfind, shifted to 1-based positions).
RFind(s, c) ==
    LET hits == {i \in 1..Len(s) : s[i] = c}
    IN IF hits = {} THEN 0 ELSE CHOOSE i \in hits : \A j \in hits : j <= i

\* os.path.splitext (posixpath), as called at lines 243, 334 and 418: the
\* extension starts at the last dot of the last path component, unless that
\* component has only leading dots before it.
splitext(p) ==
    LET sepIndex == RFind(p, "/")
        dotIndex == RFind(p, ".")
    IN IF dotIndex > sepIndex
          /\ \E k \in (sepIndex + 1)..(dotIndex - 1) : p[k] # "."
       THEN <<SubSeq(p, 1, dotIndex - 1), SubSeq(p, dotIndex, Len(p))>>
       ELSE <<p, <<>> >>

\* ---------------------------------------------------------------- JSON
\* Model texts are token sequences over "[", "]", ",", "1" and other tokens.
\* json.loads on this fragment: a value is the number 1 or a list of values.
JNum(n) == [t |-> "num", n |-> n, items |-> <<>>]
JList(xs) == [t |-> "list", n |-> 0, items |-> xs]

RECURSIVE ParseValue(_, _), ParseItems(_, _, _)
\* Parse one value of s starting at position i: [ok, value, next].
ParseValue(s, i) ==
    IF i > Len(s) THEN [ok |-> FALSE, value |-> JNum(0), next |-> i]
    ELSE IF s[i] = "1" THEN [ok |-> TRUE, value |-> JNum(1), next |-> i + 1]
    ELSE IF s[i] = "["
         THEN IF i + 1 <= Len(s) /\ s[i + 1] = "]"
              THEN [ok |-> TRUE, value |-> JList(<<>>), next |-> i + 2]
              ELSE ParseItems(s, i + 1, <<>>)
    ELSE [ok |-> FALSE, value |-> JNum(0), next |-> i]

\* Parse "value (, value)* ]" starting at position i, after items acc.
ParseItems(s, i, acc) ==
    LET v == ParseValue(s, i)
    IN IF ~v.ok THEN [ok |-> FALSE, value |-> JNum(0), next |-> i]
       ELSE IF v.next > Len(s) THEN [ok |-> FALSE, value |-> JNum(0), next |-> i]
       ELSE IF s[v.next] = "]"
            THEN [ok |-> TRUE, value |-> JList(Append(acc, v.value)),
                  next |-> v.next + 1]
       ELSE IF s[v.next] = ","
            THEN ParseItems(s, v.next + 1, Append(acc, v.value))
       ELSE [ok |-> FALSE, value |-> JNum(0), next |-> i]

\* json.loads(text), lines 130 and 312: the parsed value, or JSONDecodeError
\* when the text is not one complete JSON value.
json_loads(text) ==
    LET v == ParseValue(text, 1)
    IN IF v.ok /\ v.next = Len(text) + 1
       THEN [ok |-> TRUE, value |-> v.value]
       ELSE [ok |-> FALSE, exc |-> "JSONDecodeError"]

\* What prompt_data is when the model text is not JSON (lines 134 and 317).
RawFallback(text) == [t |-> "raw", n |-> 0, items |-> text]

parse_prompt_response_NoFallback(response_text) ==
    LET v == json_loads(response_text)
    IN IF v.ok THEN [ok |-> TRUE, value |-> v.value]
       ELSE [ok |-> FALSE, exc |-> v.exc]

\* parse_prompt_response, lines 126-134.
parse_prompt_response(response_text) ==
    LET v == json_loads(response_text)
    IN IF v.ok THEN [ok |-> TRUE, value |-> v.value]
       ELSE [ok |-> TRUE, value |-> RawFallback(response_text)]

\* --------------------------------------------------------------- images
\* The byte strings a client may upload.  For each: its length in bytes, how
\* far PIL can decode it ("full", "header": Image.open succeeds and the pixel
\* data is truncated, "none": not an image), its colour mode, and the size in
\* bytes of its JPEG encoding at quality 85.
ImageTable ==
    [rgb_small   |-> [len |-> 1000,    decode |-> "full",   mode |-> "RGB",  jpeg85 |-> 900],
     rgba_small  |-> [len |-> 2000,    decode |-> "full",   mode |-> "RGBA", jpeg85 |-> 1500],
     junk_small  |-> [len |-> 10,      decode |-> "none",   mode |-> "",     jpeg85 |-> 0],
     rgb_half    |-> [len |-> 524288,  decode |-> "full",   mode |-> "RGB",  jpeg85 |-> 500000],
     gray_halfp1 |-> [len |-> 524289,  decode |-> "full",   mode |-> "L",    jpeg85 |-> 400000],
     rgb_3m      |-> [len |-> 3145728, decode |-> "full",   mode |-> "RGB",  jpeg85 |-> 700000],
     rgba_big    |-> [len |-> 3145729, decode |-> "full",   mode |-> "RGBA", jpeg85 |-> 600000],
     rgb_huge    |-> [len |-> 9000000, decode |-> "full",   mode |-> "RGB",  jpeg85 |-> 20000000],
     trunc_big   |-> [len |-> 4000000, decode |-> "header", mode |-> "RGB",  jpeg85 |-> 0],
     junk_big    |-> [len |-> 5000000, decode |-> "none",   mode |-> "",     jpeg85 |-> 0]]

Images == DOMAIN ImageTable

\* A byte string: the upload it derives from, whether it is the original
\* bytes or a JPEG re-encoding (and at which quality), and its length.
Original(img) == [src |-> img, enc |-> "orig", q |-> 0, len |-> ImageTable[img].len]

\* img.save(buffer, format="JPEG", quality=quality, optimize=True), line 115:
\* the encoding shrinks with the quality parameter.
JpegEncode(img, quality) ==
    [src |-> img, enc |-> "jpeg", q |-> quality,
     len |-> (ImageTable[img].jpeg85 * quality) \div 85]

\* max_size_mb * 1024 * 1024, line 107.  max_size_mb is 0.5 at the only call
\* site (line 427) and 1 by default, so the parameter is carried in half
\* megabytes: halfmb = 2 * max_size_mb.
MaxSizeBytes(halfmb) == halfmb * 512 * 1024

\* Lines 102-104: Image.open, then convert("RGB") when the mode is not RGB.
\* A byte string that is no image fails in Image.open; truncated pixel data
\* fails when the pixels are first loaded (convert or save).
OpenRaises(image_data) == ImageTable[image_data.src].decode = "none"
LoadRaises(image_data) == ImageTable[image_data.src].decode = "header"

CompressPrologue_SizeFirstStrict(image_data, halfmb) ==
    IF OpenRaises(image_data) THEN [returned |-> TRUE, data |-> image_data]
    ELSE IF ImageTable[image_data.src].mode # "RGB" /\ LoadRaises(image_data)
         THEN [returned |-> TRUE, data |-> image_data]
    ELSE IF image_data.len < MaxSizeBytes(halfmb)
         THEN [returned |-> TRUE, data |-> image_data]
    ELSE [returned |-> FALSE, data |-> image_data]

\* compress_image up to the loop, lines 101-112 (and the handler of line 121
\* for what raises there): returned = TRUE when the function has returned.
CompressPrologue(image_data, halfmb) ==
    IF OpenRaises(image_data) THEN [returned |-> TRUE, data |-> image_data]
    ELSE IF ImageTable[image_data.src].mode # "RGB" /\ LoadRaises(image_data)
         THEN [returned |-> TRUE, data |-> image_data]
    ELSE IF image_data.len <= MaxSizeBytes(halfmb)
         THEN [returned |-> TRUE, data |-> image_data]
    ELSE [returned |-> FALSE, data |-> image_data]

\* One iteration of the loop, lines 113-119 (line 121-123 when save raises):
\* encoded = TRUE when an encoding was produced at `quality`.
CompressIteration(image_data, halfmb, quality) ==
    IF LoadRaises(image_data)
    THEN [returned |-> TRUE, encoded |-> FALSE, data |-> image_data, quality |-> quality]
    ELSE LET compressed_data == JpegEncode(image_data.src, quality)
         IN IF compressed_data.len <= MaxSizeBytes(halfmb) \/ quality <= 10
            THEN [returned |-> TRUE, encoded |-> TRUE, data |-> compressed_data,
                  quality |-> quality]
            ELSE [returned |-> FALSE, encoded |-> TRUE, data |-> compressed_data,
                  quality |-> quality - 10]

RECURSIVE CompressLoop(_, _, _)
CompressLoop(image_data, halfmb, quality) ==
    LET it == CompressIteration(image_data, halfmb, quality)
    IN IF it.returned THEN it.data
       ELSE CompressLoop(image_data, halfmb, it.quality)

\* compress_image, lines 100-123.
compress_image(image_data, halfmb) ==
    LET pro == CompressPrologue(image_data, halfmb)
    IN IF pro.returned THEN pro.data
       ELSE CompressLoop(image_data, halfmb, 85)

\* base64.b64encode(image_data).decode("utf-8"), line 430.
b64encode(image_data) == [b64 |-> image_data, len |-> 4 * ((image_data.len + 2) \div 3)]

\* ------------------------------------------------------------ responses
\* jsonify(body) with Flask's default status, and the (jsonify(body), code)
\* tuples the handlers return.
Jsonify(body) == [status |-> 200, body |-> body]
JsonifyWith(body, code) == [status |-> code, body |-> body]

\* The outermost handlers, lines 266-268, 364-366 and 454-456.
UnexpectedError_ErrorPage(exc) == [status |-> 500, body |-> [html |-> exc]]

UnexpectedError(exc) == JsonifyWith([success |-> FALSE, error |-> exc], 500)

Get(d, k, default) == IF k \in DOMAIN d THEN d[k] ELSE default

\* The model texts an upstream may answer with.
Texts == { <<"[", "1", "]">>, <<"1">>, <<"[", "1", ",", "[", "]", "]">>,
           <<"a", "cat">>, <<"[", "1">>, <<>> }

\* --------------------------------------------------- Gemini's HTTP reply
GeminiCandidate(text) == [content |-> Some([parts |-> <<[text |-> text]>>, role |-> "model"])]

FullUsage ==
    [promptTokenCount |-> 7, candidatesTokenCount |-> 2, totalTokenCount |-> 9,
     promptTokensDetails |-> <<[modality |-> "TEXT", tokenCount |-> 3],
                               [modality |-> "IMAGE", tokenCount |-> 4]>>,
     candidatesTokensDetails |-> <<[modality |-> "TEXT", tokenCount |-> 2]>>]

\* response.json(), line 217: the bodies an upstream can send, by name, and
\* what each parses to.  "g_html" is no JSON document.
GeminiBodies ==
    [g_list      |-> Some([candidates |-> <<GeminiCandidate(<<"[", "1", "]">>)>>,
                           usageMetadata |-> FullUsage]),
     g_num       |-> Some([candidates |-> <<GeminiCandidate(<<"1">>)>>]),
     g_nested    |-> Some([candidates |-> <<GeminiCandidate(<<"[", "1", ",", "[", "]", "]">>)>>,
                           usageMetadata |-> [totalTokenCount |-> 5]]),
     g_prose     |-> Some([candidates |-> <<GeminiCandidate(<<"a", "cat">>)>>,
                           usageMetadata |-> FullUsage]),
     g_cut       |-> Some([candidates |-> <<GeminiCandidate(<<"[", "1">>)>>]),
     g_blank     |-> Some([candidates |-> <<GeminiCandidate(<<>>)>>]),
     g_nocand    |-> Some([promptFeedback |-> "blocked"]),
     g_emptycand |-> Some([candidates |-> <<>>]),
     g_nocontent |-> Some([candidates |-> <<[finishReason |-> "SAFETY"]>>]),
     g_nullcont  |-> Some([candidates |-> <<[content |-> None]>>]),
     g_noparts   |-> Some([candidates |-> <<[content |-> Some([role |-> "model"])]>>]),
     g_emptypart |-> Some([candidates |-> <<[content |-> Some([parts |-> <<>>])]>>]),
     g_notext    |-> Some([candidates |-> <<[content |-> Some([parts |-> <<[inlineData |-> "x"]>>])]>>]),
     g_error     |-> Some([error |-> "upstream"]),
     g_html      |-> None]

\* A body the upstream sends with a status other than 200: an error document,
\* an HTML page of a gateway, or (with 201) an answer like any other.
GeminiErrorReplies ==
    {[kind |-> "http", exc |-> "", status |-> st, text |-> b] :
        st \in {429, 500}, b \in {"g_error", "g_html"}}
    \cup {[kind |-> "http", exc |-> "", status |-> 201, text |-> "g_list"]}

\* What requests.post (line 194) can do: raise (timeout, connection error) or
\* return an HTTP response with a status and a body.
GeminiReplies ==
    {[kind |-> "raise", exc |-> e, status |-> 0, text |-> "g_html"] :
        e \in {"Timeout", "ConnectionError"}}
    \cup {[kind |-> "http", exc |-> "", status |-> 200, text |-> b] :
            b \in DOMAIN GeminiBodies}
    \cup GeminiErrorReplies

ResponseJson(response) ==
    IF GeminiBodies[response.text] = None
    THEN [ok |-> FALSE, exc |-> "JSONDecodeError"]
    ELSE [ok |-> TRUE, value |-> GeminiBodies[response.text][1]]

\* response_data["candidates"][0]["content"]["parts"][0]["text"], line 219.
NavigateGemini(response_data) ==
    IF "candidates" \notin DOMAIN response_data THEN [ok |-> FALSE, exc |-> "KeyError"]
    ELSE IF Len(response_data.candidates) = 0 THEN [ok |-> FALSE, exc |-> "IndexError"]
    ELSE LET cand == response_data.candidates[1] IN
         IF "content" \notin DOMAIN cand THEN [ok |-> FALSE, exc |-> "KeyError"]
         ELSE IF cand.content = None THEN [ok |-> FALSE, exc |-> "TypeError"]
         ELSE LET content == cand.content[1] IN
              IF "parts" \notin DOMAIN content THEN [ok |-> FALSE, exc |-> "KeyError"]
              ELSE IF Len(content.parts) = 0 THEN [ok |-> FALSE, exc |-> "IndexError"]
              ELSE IF "text" \notin DOMAIN content.parts[1]
                   THEN [ok |-> FALSE, exc |-> "KeyError"]
              ELSE [ok |-> TRUE, value |-> content.parts[1].text]

Lower(modality) ==
    CASE modality = "TEXT" -> "text"
      [] modality = "IMAGE" -> "image"
      [] OTHER -> modality

\* to_dict, lines 140-141: a later entry of the same modality wins.
to_dict(details) ==
    [m \in {Lower(details[i].modality) : i \in 1..Len(details)} |->
        LET last == CHOOSE i \in 1..Len(details) :
                        /\ Lower(details[i].modality) = m
                        /\ \A j \in 1..Len(details) :
                              Lower(details[j].modality) = m => j <= i
        IN details[last].tokenCount]

\* extract_token_usage, lines 137-149.
extract_token_usage(usage_metadata) ==
    [prompt_tokens |-> Get(usage_metadata, "promptTokenCount", 0),
     completion_tokens |-> Get(usage_metadata, "candidatesTokenCount", 0),
     total_tokens |-> Get(usage_metadata, "totalTokenCount", 0),
     prompt_detail |-> to_dict(Get(usage_metadata, "promptTokensDetails", <<>>)),
     completion_detail |-> to_dict(Get(usage_metadata, "candidatesTokensDetails", <<>>))]

\* ----------------------------------------------------------- file system
\* A file's content: what kind of artifact was written, the data, and whether
\* the write ran to completion (open() truncates, then the data is written).
UploadFile(image_data, complete) ==
    [kind |-> "upload", data |-> image_data, complete |-> complete]
ResultFile(detail_content, complete) ==
    [kind |-> "result", data |-> detail_content, complete |-> complete]

\* How a write to the local disk can end: "ok", "open_err" (nothing is created
\* or truncated), "write_err" (the file is opened, the data is not all written).
IoOutcomes == {"ok", "open_err", "write_err"}

JsonSuffix == <<".", "json">>

\* os.path.join(save_dir, f"{os.path.splitext(unique_filename)[0]}.json"),
\* lines 242-244 and 333-335.
DetailPath(save_dir, unique_filename) ==
    <<save_dir, splitext(unique_filename)[1] \o JsonSuffix>>

SaveDetail_Propagates(persist, detail_path, detail_content) ==
    CASE persist = "ok" ->
           [raised |-> FALSE, write |-> Some([path |-> detail_path,
                                              content |-> ResultFile(detail_content, TRUE)])]
      [] persist = "open_err" -> [raised |-> TRUE, write |-> None]
      [] OTHER ->
           [raised |-> TRUE, write |-> Some([path |-> detail_path,
                                             content |-> ResultFile(detail_content, FALSE)])]

\* The try block that writes the result JSON, lines 241-255 and 332-349: any
\* exception is logged and swallowed.
SaveDetail(persist, detail_path, detail_content) ==
    CASE persist = "ok" ->
           [raised |-> FALSE, write |-> Some([path |-> detail_path,
                                              content |-> ResultFile(detail_content, TRUE)])]
      [] persist = "open_err" -> [raised |-> FALSE, write |-> None]
      [] OTHER ->
           [raised |-> FALSE, write |-> Some([path |-> detail_path,
                                              content |-> ResultFile(detail_content, FALSE)])]

ClientResult_Retried(response, requests, write, asked) ==
    [response |-> response, write |-> write, asked |-> asked,
     requests |-> IF response.status = 200 THEN requests ELSE requests \o requests]

\* What a client function did: the response it returned, the upstream
\* requests it issued, the file it wrote, if any, and which answers of the
\* world it got as far as asking for.
ClientResult(response, requests, write, asked) ==
    [response |-> response, requests |-> requests, write |-> write, asked |-> asked]

\* ------------------------------------------------------- call_gemini_api
GeminiHttpError_Status200(response) ==
    Jsonify([success |-> FALSE,
             error |-> "Gemini API error: " \o ToString(response.status),
             details |-> response.text])

\* Lines 202-215.
GeminiHttpError(response) ==
    JsonifyWith([success |-> FALSE,
                 error |-> "Gemini API error: " \o ToString(response.status),
                 details |-> response.text], 500)

\* Lines 222-233.
GeminiUnparsable(response_data) ==
    JsonifyWith([success |-> FALSE, error |-> "cannot parse model response",
                 raw_response |-> response_data], 500)

\* Lines 257-264.
GeminiSuccess(parsed_data, response_text, file_uuid) ==
    Jsonify([success |-> TRUE, prompt_data |-> parsed_data,
             raw_response |-> response_text, uuid |-> file_uuid])

\* Lines 235-264: the reply was navigated to response_text.
GeminiFinish(response_data, response_text, env, save_dir, unique_filename, file_uuid, sent, asked) ==
    LET usage_metadata == Get(response_data, "usageMetadata", <<>>)
        token_usage == extract_token_usage(usage_metadata)
        parsed == parse_prompt_response(response_text)
    IN IF ~parsed.ok THEN ClientResult(UnexpectedError(parsed.exc), sent, None, asked)
       ELSE LET detail_content == [ip |-> env.ip, prompt_data |-> parsed.value,
                                   token_usage |-> token_usage, timestamp |-> env.now]
                saved == SaveDetail(env.persist,
                                    DetailPath(save_dir, unique_filename), detail_content)
                all == asked \cup {"persist"}
            IN IF saved.raised
               THEN ClientResult(UnexpectedError("OSError"), sent, saved.write, all)
               ELSE ClientResult(GeminiSuccess(parsed.value, response_text, file_uuid),
                                 sent, saved.write, all)

\* call_gemini_api, lines 152-268 (root build: src/promptoon.py lines 171-287,
\* which first probes the proxy, lines 206-210).  env carries what the world
\* decides: whether the proxy answers, the upstream's reply, how the result
\* write ends, the clock and the caller's address.
call_gemini_api(bld, env, image_base64, api_key, model_version, save_dir, unique_filename, file_uuid) ==
    LET sent == <<[provider |-> "gemini", model |-> model_version,
                   key |-> api_key, image |-> image_base64]>>
        response == env.reply
        probed == IF bld = "root" THEN {"proxy_ok"} ELSE {}
        asked == probed \cup {"reply"}
    IN IF bld = "root" /\ ~env.proxy_ok
       THEN ClientResult(JsonifyWith([success |-> FALSE, error |-> "proxy unreachable"], 500),
                         <<>>, None, probed)
       ELSE IF response.kind = "raise"
       THEN ClientResult(UnexpectedError(response.exc), sent, None, asked)
       ELSE IF response.status # 200
       THEN ClientResult(GeminiHttpError(response), sent, None, asked)
       ELSE LET parsed_body == ResponseJson(response) IN
            IF ~parsed_body.ok
            THEN ClientResult(UnexpectedError(parsed_body.exc), sent, None, asked)
            ELSE LET response_data == parsed_body.value
                     nav == NavigateGemini(response_data)
                 IN IF nav.ok
                    THEN GeminiFinish(response_data, nav.value, env, save_dir,
                                      unique_filename, file_uuid, sent, asked)
                    ELSE IF nav.exc \in {"KeyError", "IndexError"}
                    THEN ClientResult(GeminiUnparsable(response_data), sent, None, asked)
                    ELSE ClientResult(UnexpectedError(nav.exc), sent, None, asked)

\* ------------------------------------------------------- call_doubao_api
DoubaoItem(text) == [content |-> Some(<<[text |-> text]>>)]

DoubaoOutputs ==
    {None, Some(<<>>), Some(<<[content |-> None]>>), Some(<<[content |-> Some(<<>>)]>>)}
    \cup {Some(<<DoubaoItem(t)>>) : t \in Texts}

DoubaoUsages ==
    {None, Some([input_tokens |-> 7, output_tokens |-> 2, total_tokens |-> 9])}

\* What client.responses.create (line 280) can do: raise (HTTP error, timeout,
\* connection error) or return a response object.
DoubaoReplies ==
    {[kind |-> "raise", exc |-> e, output |-> None, usage |-> None,
      id |-> "", model |-> "", status |-> ""] : e \in {"ArkAPIError", "Timeout"}}
    \cup {[kind |-> "object", exc |-> "", output |-> o, usage |-> u,
           id |-> "resp_1", model |-> "doubao-vision", status |-> "completed"] :
            o \in DoubaoOutputs, u \in DoubaoUsages}

\* The condition of lines 302-307.
DoubaoHasText(response) ==
    /\ response.output # None
    /\ Len(response.output[1]) > 0
    /\ response.output[1][1].content # None
    /\ Len(response.output[1][1].content[1]) > 0

\* Lines 311-317.
DoubaoPromptData(response_text) ==
    LET v == json_loads(response_text)
    IN IF v.ok THEN v.value ELSE RawFallback(response_text)

\* Lines 318-320.
DoubaoUnparsable(response) ==
    JsonifyWith([success |-> FALSE, error |-> "abnormal API response structure"], 500)

\* Lines 323-329.
DoubaoTokenUsage(response) ==
    [prompt_tokens |-> IF response.usage # None THEN response.usage[1].input_tokens ELSE 0,
     completion_tokens |-> IF response.usage # None THEN response.usage[1].output_tokens ELSE 0,
     total_tokens |-> IF response.usage # None THEN response.usage[1].total_tokens ELSE 0,
     prompt_detail |-> <<>>,
     completion_detail |-> <<>>]

\* Lines 352-362.
DoubaoSuccess(prompt_data, response_text, token_usage, response, file_uuid) ==
    Jsonify([success |-> TRUE, prompt_data |-> prompt_data,
             raw_response |-> response_text, token_usage |-> token_usage,
             response_id |-> response.id, model |-> response.model,
             uuid |-> file_uuid])

\* json.dumps on the JSON fragment of the model.
RECURSIVE json_dumps(_), DumpItems(_, _)
json_dumps(v) ==
    IF v.t = "num" THEN <<"1">>
    ELSE <<"[">> \o DumpItems(v.items, 1) \o <<"]">>
DumpItems(xs, i) ==
    IF i > Len(xs) THEN <<>>
    ELSE IF i = Len(xs) THEN json_dumps(xs[i])
    ELSE json_dumps(xs[i]) \o <<",">> \o DumpItems(xs, i + 1)

\* The literal example_response of the root build, src/promptoon.py lines
\* 304-332, as a value of the model's JSON fragment.
ExampleResponse == JList(<<JNum(1), JList(<<>>)>>)

\* Root build, src/promptoon.py lines 290-361: no upstream is contacted, the
\* fixed example is persisted and returned.
call_doubao_api_stub(env, save_dir, unique_filename, file_uuid) ==
    LET detail_content == [ip |-> env.ip, prompt_data |-> ExampleResponse,
                           timestamp |-> env.now]
        saved == SaveDetail(env.persist, DetailPath(save_dir, unique_filename),
                            detail_content)
    IN IF saved.raised
       THEN ClientResult(UnexpectedError("OSError"), <<>>, saved.write, {"persist"})
       ELSE ClientResult(Jsonify([success |-> TRUE, prompt_data |-> ExampleResponse,
                                  raw_response |-> json_dumps(ExampleResponse),
                                  uuid |-> file_uuid]),
                         <<>>, saved.write, {"persist"})

\* call_doubao_api, lines 271-366 (root build: the stub above).
call_doubao_api(bld, env, image_base64, api_key, model_version, save_dir, unique_filename, file_uuid) ==
    LET sent == <<[provider |-> "doubao", model |-> model_version,
                   key |-> api_key, image |-> image_base64]>>
        response == env.reply
    IN IF bld = "root"
       THEN call_doubao_api_stub(env, save_dir, unique_filename, file_uuid)
       ELSE IF response.kind = "raise"
       THEN ClientResult(UnexpectedError(response.exc), sent, None, {"reply"})
       ELSE IF ~DoubaoHasText(response)
       THEN ClientResult(DoubaoUnparsable(response), sent, None, {"reply"})
       ELSE LET response_text == response.output[1][1].content[1][1].text
                prompt_data == DoubaoPromptData(response_text)
                token_usage == DoubaoTokenUsage(response)
                detail_content == [ip |-> env.ip, prompt_data |-> prompt_data,
                                   token_usage |-> token_usage,
                                   response_id |-> response.id,
                                   model |-> response.model,
                                   status |-> response.status,
                                   timestamp |-> env.now]
                saved == SaveDetail(env.persist, DetailPath(save_dir, unique_filename),
                                    detail_content)
            IN IF saved.raised
               THEN ClientResult(UnexpectedError("OSError"), sent, saved.write,
                                 {"reply", "persist"})
               ELSE ClientResult(DoubaoSuccess(prompt_data, response_text, token_usage,
                                               response, file_uuid),
                                 sent, saved.write, {"reply", "persist"})

\* ------------------------------------------------------------- requests
Filenames ==
    { <<>>, <<"a", ".", "png">>, <<"a">>, <<"a", ".", "json">>, <<".", "png">> }

UploadImages == {"rgba_small", "rgb_3m", "rgba_big", "rgb_huge", "junk_big"}

\* The api_key form field: missing, empty, a token made by /encrypt_api_key,
\* a token whose tag does not verify, and text that is no token at all.
KeyFields ==
    {None, Some(<<>>), Some(<<"fernet", "k1", "hmac_bad">>), Some(<<"plain-key">>)}
    \cup {Some(encrypt_api_key(k)) : k \in ApiKeys}

ModelFields == {None, Some("gemini"), Some("doubao"), Some("openai")}

\* A POST /generate_prompt request: request.files["image"] (absent, or a file
\* part with a filename and the bytes) and the form fields the handler reads.
RequestInputs ==
    {[image |-> im, api_model |-> m, api_key |-> k] :
        im \in {None} \cup {Some([filename |-> f, data |-> Original(i)]) :
                              f \in Filenames, i \in UploadImages},
        m \in ModelFields, k \in KeyFields}

\* The requests of the concurrent specification: all pass validation.
ConcurrentInputs ==
    {[image |-> Some([filename |-> f, data |-> Original("rgba_small")]),
      api_model |-> m, api_key |-> Some(encrypt_api_key("k1"))] :
        f \in {<<"a", ".", "png">>, <<"a", ".", "json">>},
        m \in {Some("gemini"), Some("doubao")}}

\* request.form.get(name, default), lines 401-403.
FormGet(field, default) == IF field = None THEN default ELSE field[1]

\* Python's "not x" for an optional string.
Falsy(field) == field = None \/ field[1] = <<>>

Reject(message, code) ==
    [rejected |-> TRUE, response |-> JsonifyWith([success |-> FALSE, error |-> message], code),
     api_key |-> ""]

\* generate_prompt up to the decryption of the key, lines 393-411.
ValidateRequest(in) ==
    IF in.image = None THEN Reject("no image uploaded", 400)
    ELSE IF in.image[1].filename = <<>> THEN Reject("no file selected", 400)
    ELSE IF Falsy(in.api_key) THEN Reject("API key must not be empty", 400)
    ELSE LET dec == decrypt_api_key(in.api_key[1])
         IN IF ~dec.ok THEN Reject("API key decryption failed", 4000)
            ELSE [rejected |-> FALSE, response |-> Jsonify([success |-> TRUE]),
                  api_key |-> dec.value]

\* uuid.uuid4().hex, line 417, as a token.
HexId(i) == "u" \o ToString(i)

UniqueFilename_FromUpload(file_uuid, filename) ==
    LET ext == splitext(filename)[2]
    IN splitext(filename)[1] \o (IF ext = <<>> THEN <<".", "jpg">> ELSE ext)

\* Lines 418-419: the id, then the upload's extension or ".jpg".
UniqueFilename(file_uuid, filename) ==
    LET ext == splitext(filename)[2]
    IN <<file_uuid>> \o (IF ext = <<>> THEN <<".", "jpg">> ELSE ext)

\* Lines 425-430: what is sent upstream.
ImageToSend(image_data) ==
    b64encode(IF image_data.len > 3 * 1024 * 1024
              THEN compress_image(image_data, 1)
              ELSE image_data)

\* ------------------------------------------- configuration and start-up
\* A file of ./prompts as the loaders find it: how open() ends ("ok" or the
\* OSError it raises), how decoding its bytes as UTF-8 ends in read(), and
\* the text read.
ConfigFile(open, read, text) == [open |-> open, read |-> read, text |-> text]

OpenErrors == {"FileNotFoundError", "PermissionError", "IsADirectoryError"}

ConfigFilesWith(texts) ==
    {ConfigFile("ok", "ok", t) : t \in texts}
        \cup {ConfigFile("ok", "UnicodeDecodeError", <<>>)}
        \cup {ConfigFile(e, "ok", <<>>) : e \in OpenErrors}

\* default_prompt.txt and default_dialogs.json.
PromptFiles == ConfigFilesWith({<<"describe", "the", "image">>, <<>>})
DialogFiles == ConfigFilesWith(Texts)

\* The hardcoded defaults, lines 75 and 92-95.
DefaultPrompt == <<"default", "prompt", "not", "configured">>
DefaultDialogs ==
    JList(<<[role |-> "user", parts |-> <<[text |-> "[not configured]"]>>],
            [role |-> "model", parts |-> <<[text |-> "dialogs not configured"]>>]>>)

\* load_prompt, lines 64-75: only FileNotFoundError is caught.
load_prompt(f) ==
    IF f.open = "FileNotFoundError" THEN [ok |-> TRUE, value |-> DefaultPrompt]
    ELSE IF f.open # "ok" THEN [ok |-> FALSE, exc |-> f.open]
    ELSE IF f.read # "ok" THEN [ok |-> FALSE, exc |-> f.read]
    ELSE [ok |-> TRUE, value |-> f.text]

\* load_imitation_dialogs, lines 78-93: FileNotFoundError and
\* json.JSONDecodeError are caught; json.load reads the file, then parses.
load_imitation_dialogs(f) ==
    IF f.open = "FileNotFoundError" THEN [ok |-> TRUE, value |-> DefaultDialogs]
    ELSE IF f.open # "ok" THEN [ok |-> FALSE, exc |-> f.open]
    ELSE IF f.read # "ok" THEN [ok |-> FALSE, exc |-> f.read]
    ELSE LET dialogs == json_loads(f.text)
         IN IF dialogs.ok THEN [ok |-> TRUE, value |-> dialogs.value]
            ELSE [ok |-> TRUE, value |-> DefaultDialogs]

\* How socket.create_connection to the proxy can end, and what
\* requests.get("https://www.google.com") through the proxy can give.
ConnectOutcomes == {"ok", "ConnectionRefusedError", "timeout"}
ProbeReplies ==
    {[kind |-> "http", exc |-> "", status |-> 200],
     [kind |-> "http", exc |-> "", status |-> 403],
     [kind |-> "raise", exc |-> "ProxyError", status |-> 0]}

\* check_proxy_connectivity, src/promptoon.py lines 460-471.
check_proxy_connectivity(connect) == connect = "ok"

\* check_internet_via_proxy, src/promptoon.py lines 492-505.
check_internet_via_proxy(reply) == reply.kind = "http" /\ reply.status = 200

Probe(name, ok) == [probe |-> name, ok |-> ok]

\* The process as the interpreter starts to execute the module.
BootProc ==
    [pc |-> "load_prompt", SYSTEM_PROMPT |-> None, IMITATION_DIALOGS |-> None,
     prompt_file |-> None, dialogs_file |-> None, probes |-> <<>>,
     traceback |-> "", exit_status |-> None]

\* A process of build bld that serves, started with both files in place.
ServingProc(bld) ==
    [pc |-> "serving",
     SYSTEM_PROMPT |-> Some(<<"describe", "the", "image">>),
     IMITATION_DIALOGS |-> Some(JList(<<JNum(1)>>)),
     prompt_file |-> Some(ConfigFile("ok", "ok", <<"describe", "the", "image">>)),
     dialogs_file |-> Some(ConfigFile("ok", "ok", <<"[", "1", "]">>)),
     probes |-> IF bld = "root"
                THEN <<Probe("proxy", TRUE), Probe("internet", TRUE)>>
                ELSE <<>>,
     traceback |-> "", exit_status |-> None]

\* ---------------------------------------------------------------- state
VARIABLES
    build,    \* which build of the service runs
    today,    \* the calendar day of datetime.now()
    pc,       \* per request: "idle", "accepted", "saved", "done"
    req,      \* per request: the request received
    loc,      \* per request: the handler's local variables, and whether the
              \* with-block of lines 422-423 ran to its end (archived)
    resp,     \* per request: the HTTP response returned
    env,      \* per request: what the world answered to the client function
    calls,    \* per request: the upstream requests issued
    files,    \* the upload directory tree: path -> content
    writers,  \* per path: who wrote it, as <<request, kind>> pairs
    issued,   \* the ids uuid4 has returned
    norm,     \* a run of compress_image on its own
    proc      \* the server process: where its start-up stands, the
              \* configuration it loaded, the probes it made, its exit status

vars == <<build, today, pc, req, loc, resp, env, calls, files, writers, issued, norm, proc>>

NoBytes == [src |-> "", enc |-> "", q |-> 0, len |-> 0]
NoRequest == [image |-> None, api_model |-> None, api_key |-> None]
NoLocals == [api_key |-> "", api_model |-> "", model_version |-> "",
             image_data |-> NoBytes, save_dir |-> 0, file_uuid |-> "",
             unique_filename |-> <<>>, archived |-> FALSE]
NoResponse == [status |-> 0, body |-> [pending |-> TRUE]]
NoEnv == [proxy_ok |-> TRUE, reply |-> [kind |-> "none"], persist |-> "none",
          now |-> 0, ip |-> ""]
NoNorm == [pc |-> "off", input |-> NoBytes, halfmb |-> 0, quality |-> 0,
           output |-> NoBytes, encodings |-> <<>>]

InitHandlers ==
    /\ today = 1
    /\ pc = [r \in Requests |-> "idle"]
    /\ req = [r \in Requests |-> NoRequest]
    /\ loc = [r \in Requests |-> NoLocals]
    /\ resp = [r \in Requests |-> NoResponse]
    /\ env = [r \in Requests |-> NoEnv]
    /\ calls = [r \in Requests |-> <<>>]
    /\ files = <<>>
    /\ writers = <<>>
    /\ issued = {}

Init ==
    /\ build \in Builds
    /\ InitHandlers
    /\ norm = NoNorm
    /\ proc = ServingProc(build)

\* -------------------------------------------------------------- actions
\* The file system after a write of content to path by request r.
WriteFile(fs, path, content) == (path :> content) @@ fs
NoteWriter(ws, path, r, kind) ==
    (path :> (Get(ws, path, {}) \cup {<<r, kind>>})) @@ ws

\* generate_prompt, lines 393-411: validation and decryption of the key.
GenerateStart(r, in) ==
    /\ pc[r] = "idle"
    /\ req' = [req EXCEPT ![r] = in]
    /\ LET v == ValidateRequest(in)
       IN IF v.rejected
          THEN /\ pc' = [pc EXCEPT ![r] = "done"]
               /\ resp' = [resp EXCEPT ![r] = v.response]
               /\ loc' = loc
          ELSE /\ pc' = [pc EXCEPT ![r] = "accepted"]
               /\ resp' = resp
               /\ loc' = [loc EXCEPT ![r].api_key = v.api_key,
                                     ![r].api_model = FormGet(in.api_model, "gemini"),
                                     ![r].model_version = "gemini-2.5-flash-lite"]
    /\ UNCHANGED <<build, today, env, calls, files, writers, issued, norm, proc>>

\* generate_prompt, lines 413-423: read the upload, draw an id, archive the
\* bytes under uploads/<day>/<id><ext>.  An I/O error goes to line 454.
SaveUpload(r, io, id) ==
    /\ pc[r] = "accepted"
    /\ id \notin issued
    /\ issued' = issued \cup {id}
    /\ LET image_data == req[r].image[1].data
           save_dir == today
           file_uuid == HexId(id)
           unique_filename == UniqueFilename(file_uuid, req[r].image[1].filename)
           save_path == <<save_dir, unique_filename>>
       IN /\ loc' = [loc EXCEPT ![r].image_data = image_data,
                                ![r].save_dir = save_dir,
                                ![r].file_uuid = file_uuid,
                                ![r].unique_filename = unique_filename,
                                ![r].archived = (io = "ok")]
          /\ IF io = "open_err"
             THEN UNCHANGED <<files, writers>>
             ELSE /\ files' = WriteFile(files, save_path, UploadFile(image_data, io = "ok"))
                  /\ writers' = NoteWriter(writers, save_path, r, "upload")
          /\ IF io = "ok"
             THEN /\ pc' = [pc EXCEPT ![r] = "saved"]
                  /\ resp' = resp
             ELSE /\ pc' = [pc EXCEPT ![r] = "done"]
                  /\ resp' = [resp EXCEPT ![r] = UnexpectedError("OSError")]
    /\ UNCHANGED <<build, today, req, env, calls, norm, proc>>

\* The answers of the world a client function asked for; the others stay unset.
Observed(e, asked) ==
    [proxy_ok |-> IF "proxy_ok" \in asked THEN e.proxy_ok ELSE NoEnv.proxy_ok,
     reply |-> IF "reply" \in asked THEN e.reply ELSE NoEnv.reply,
     persist |-> IF "persist" \in asked THEN e.persist ELSE NoEnv.persist,
     now |-> e.now, ip |-> e.ip]

\* The effect of a client function's result on the state.
Finish(r, e, result) ==
    /\ pc' = [pc EXCEPT ![r] = "done"]
    /\ env' = [env EXCEPT ![r] = Observed(e, result.asked)]
    /\ resp' = [resp EXCEPT ![r] = result.response]
    /\ calls' = [calls EXCEPT ![r] = calls[r] \o result.requests]
    /\ IF result.write = None
       THEN UNCHANGED <<files, writers>>
       ELSE /\ files' = WriteFile(files, result.write[1].path, result.write[1].content)
            /\ writers' = NoteWriter(writers, result.write[1].path, r, "result")
    /\ UNCHANGED <<build, today, req, loc, issued, norm, proc>>

WorldFor(r, proxy_ok, reply, persist) ==
    [proxy_ok |-> proxy_ok, reply |-> reply, persist |-> persist,
     now |-> today, ip |-> "203.0.113.9"]

\* generate_prompt, lines 425-441, and call_gemini_api.
CallGemini(r, proxy_ok, reply, persist) ==
    /\ pc[r] = "saved"
    /\ loc[r].api_model = "gemini"
    /\ LET e == WorldFor(r, proxy_ok, reply, persist)
       IN Finish(r, e, call_gemini_api(build, e, ImageToSend(loc[r].image_data),
                                       loc[r].api_key, loc[r].model_version,
                                       loc[r].save_dir, loc[r].unique_filename,
                                       loc[r].file_uuid))

\* generate_prompt, lines 425-430 and 442-450, and call_doubao_api.
CallDoubao(r, reply, persist) ==
    /\ pc[r] = "saved"
    /\ loc[r].api_model = "doubao"
    /\ LET e == WorldFor(r, TRUE, reply, persist)
       IN Finish(r, e, call_doubao_api(build, e, ImageToSend(loc[r].image_data),
                                       loc[r].api_key, loc[r].model_version,
                                       loc[r].save_dir, loc[r].unique_filename,
                                       loc[r].file_uuid))

\* generate_prompt, lines 451-452: neither provider was selected.
RejectModel(r) ==
    /\ pc[r] = "saved"
    /\ loc[r].api_model \notin {"gemini", "doubao"}
    /\ Finish(r, env[r],
              ClientResult(JsonifyWith([success |-> FALSE, error |-> "unsupported AI model"], 400),
                           <<>>, None, {}))

\* Midnight passes.
Tick ==
    /\ today < MaxDay
    /\ today' = today + 1
    /\ UNCHANGED <<build, pc, req, loc, resp, env, calls, files, writers, issued, norm, proc>>

\* One request at a time, with every input the handler distinguishes.
Next ==
    \/ \E in \in RequestInputs : GenerateStart(1, in)
    \/ \E io \in IoOutcomes, id \in Ids : SaveUpload(1, io, id)
    \/ \E proxy_ok \in BOOLEAN, reply \in GeminiReplies, persist \in IoOutcomes :
          CallGemini(1, proxy_ok, reply, persist)
    \/ \E reply \in DoubaoReplies, persist \in IoOutcomes : CallDoubao(1, reply, persist)
    \/ RejectModel(1)
    \/ Tick

Spec == Init /\ [][Next]_vars

\* ------------------------------------------- the concurrent specification
\* The upstream answers of the concurrent specification: an answer with a
\* JSON text and an error (Gemini), an answer with a prose text (Doubao).
ConcurrentGeminiReplies ==
    {[kind |-> "http", exc |-> "", status |-> 200, text |-> "g_list"],
     [kind |-> "http", exc |-> "", status |-> 500, text |-> "g_error"]}

ConcurrentDoubaoReplies ==
    {[kind |-> "object", exc |-> "", output |-> Some(<<DoubaoItem(t)>>), usage |-> None,
      id |-> "resp_1", model |-> "doubao-vision", status |-> "completed"] :
        t \in {<<"a", "cat">>}}

\* Requests handled by concurrent workers of the server: the steps of
\* different requests interleave.  All requests fall on the same day and
\* every write to the disk succeeds.
NextConcurrent ==
    \E r \in Requests :
        \/ \E in \in ConcurrentInputs : GenerateStart(r, in)
        \/ \E id \in Ids : SaveUpload(r, "ok", id)
        \/ \E reply \in ConcurrentGeminiReplies : CallGemini(r, TRUE, reply, "ok")
        \/ \E reply \in ConcurrentDoubaoReplies : CallDoubao(r, reply, "ok")

SpecConcurrent == Init /\ [][NextConcurrent]_vars

\* ------------------------------------------ compress_image, step by step
\* max_size_mb, in half megabytes: 0.5 (line 427), 1 (the default), 2, 3.
NormLimits == {1, 2, 4, 6}

InitCompress ==
    /\ build = "python"
    /\ InitHandlers
    /\ norm \in {[pc |-> "call", input |-> Original(i), halfmb |-> h, quality |-> 0,
                  output |-> NoBytes, encodings |-> <<>>] : i \in Images, h \in NormLimits}
    /\ proc = ServingProc(build)

\* Lines 101-112.
CompressEnter ==
    /\ norm.pc = "call"
    /\ LET pro == CompressPrologue(norm.input, norm.halfmb)
       IN norm' = IF pro.returned
                  THEN [norm EXCEPT !.pc = "returned", !.output = pro.data]
                  ELSE [norm EXCEPT !.pc = "loop", !.quality = 85]
    /\ UNCHANGED <<build, today, pc, req, loc, resp, env, calls, files, writers, issued, proc>>

\* Lines 113-119, one iteration.
CompressEncode ==
    /\ norm.pc = "loop"
    /\ LET it == CompressIteration(norm.input, norm.halfmb, norm.quality)
           encs == IF it.encoded THEN Append(norm.encodings, norm.quality)
                   ELSE norm.encodings
       IN norm' = IF it.returned
                  THEN [norm EXCEPT !.pc = "returned", !.output = it.data,
                                    !.encodings = encs]
                  ELSE [norm EXCEPT !.quality = it.quality, !.encodings = encs]
    /\ UNCHANGED <<build, today, pc, req, loc, resp, env, calls, files, writers, issued, proc>>

NextCompress == CompressEnter \/ CompressEncode

SpecCompress == InitCompress /\ [][NextCompress]_vars

\* The stepwise run and the function agree.
CompressStepsAgree ==
    norm.pc = "returned" => norm.output = compress_image(norm.input, norm.halfmb)

\* ------------------------------------------------ the start of the process
InitStartup ==
    /\ build \in Builds
    /\ InitHandlers
    /\ norm = NoNorm
    /\ proc = BootProc

\* An exception that reaches the top level of the module: the interpreter
\* prints the traceback and the process ends with status 1.
Uncaught(p, exc) == [p EXCEPT !.pc = "exited", !.traceback = exc, !.exit_status = Some(1)]

\* exit(1), src/promptoon.py lines 515 and 519.
Exit(p, code) == [p EXCEPT !.pc = "exited", !.exit_status = Some(code)]

\* SYSTEM_PROMPT = load_prompt(), line 96.
LoadPrompt(f) ==
    /\ proc.pc = "load_prompt"
    /\ LET found == [proc EXCEPT !.prompt_file = Some(f)]
           prompt == load_prompt(f)
       IN proc' = IF prompt.ok
                  THEN [found EXCEPT !.pc = "load_dialogs",
                                     !.SYSTEM_PROMPT = Some(prompt.value)]
                  ELSE Uncaught(found, prompt.exc)
    /\ UNCHANGED <<build, today, pc, req, loc, resp, env, calls, files, writers, issued, norm>>

\* IMITATION_DIALOGS = load_imitation_dialogs(), line 97.
LoadDialogs(f) ==
    /\ proc.pc = "load_dialogs"
    /\ LET found == [proc EXCEPT !.dialogs_file = Some(f)]
           dialogs == load_imitation_dialogs(f)
       IN proc' = IF dialogs.ok
                  THEN [found EXCEPT !.pc = "main",
                                     !.IMITATION_DIALOGS = Some(dialogs.value)]
                  ELSE Uncaught(found, dialogs.exc)
    /\ UNCHANGED <<build, today, pc, req, loc, resp, env, calls, files, writers, issued, norm>>

\* __main__ of the root build, src/promptoon.py lines 511-515.
MainProbeProxy(connect) ==
    /\ build = "root"
    /\ proc.pc = "main"
    /\ LET ok == check_proxy_connectivity(connect)
           probed == [proc EXCEPT !.probes = Append(proc.probes, Probe("proxy", ok))]
       IN proc' = IF ~ok THEN Exit(probed, 1)
                  ELSE [probed EXCEPT !.pc = "probed_proxy"]
    /\ UNCHANGED <<build, today, pc, req, loc, resp, env, calls, files, writers, issued, norm>>

\* __main__ of the root build, src/promptoon.py lines 517-519.
MainProbeInternet(reply) ==
    /\ build = "root"
    /\ proc.pc = "probed_proxy"
    /\ LET ok == check_internet_via_proxy(reply)
           probed == [proc EXCEPT !.probes = Append(proc.probes, Probe("internet", ok))]
       IN proc' = IF ~ok THEN Exit(probed, 1)
                  ELSE [probed EXCEPT !.pc = "probed"]
    /\ UNCHANGED <<build, today, pc, req, loc, resp, env, calls, files, writers, issued, norm>>

\* app.run(...): line 467, the whole of __main__ in the python build, and
\* src/promptoon.py line 524, after the probes, in the root build.
AppRun ==
    /\ proc.pc = (IF build = "root" THEN "probed" ELSE "main")
    /\ proc' = [proc EXCEPT !.pc = "serving"]
    /\ UNCHANGED <<build, today, pc, req, loc, resp, env, calls, files, writers, issued, norm>>

\* The process from its start: the module is executed, then __main__, and
\* once app.run is reached requests are handled.
NextStartup ==
    \/ \E f \in PromptFiles : LoadPrompt(f)
    \/ \E f \in DialogFiles : LoadDialogs(f)
    \/ \E connect \in ConnectOutcomes : MainProbeProxy(connect)
    \/ \E reply \in ProbeReplies : MainProbeInternet(reply)
    \/ AppRun
    \/ proc.pc = "serving" /\ \E in \in ConcurrentInputs : GenerateStart(1, in)
    \/ proc.pc = "serving" /\ \E id \in Ids : SaveUpload(1, "ok", id)
    \/ proc.pc = "serving" /\ \E reply \in ConcurrentGeminiReplies :
                                  CallGemini(1, TRUE, reply, "ok")
    \/ proc.pc = "serving" /\ \E reply \in ConcurrentDoubaoReplies :
                                  CallDoubao(1, reply, "ok")

SpecStartup == InitStartup /\ [][NextStartup]_vars

\* =============================================================== claims
Done(r) == pc[r] = "done"
Handled == {r \in Requests : Done(r)}

\* The request passed the checks of lines 394-399 (a file part, a filename).
HasFile(in) == in.image # None /\ in.image[1].filename # <<>>

\* A client input error as the interface describes it.
ClientInputError(in) ==
    \/ in.image = None
    \/ in.image[1].filename = <<>>
    \/ Falsy(in.api_key)
    \/ (in.api_model # None /\ in.api_model[1] \notin {"gemini", "doubao"})

WroteAnything(r) ==
    \E p \in DOMAIN writers : \E w \in writers[p] : w[1] = r
WroteResult(r) ==
    \E p \in DOMAIN writers : <<r, "result">> \in writers[p]

\* C1: every request with a client input error (no image part, empty
\* filename, missing or empty api_key, unsupported api_model) is answered
\* success: false with status 400, and no upstream call is made for it.
C1_ClientErrorIs400 ==
    \A r \in Handled :
        ClientInputError(req[r]) =>
            /\ resp[r].status = 400
            /\ resp[r].body.success = FALSE
            /\ calls[r] = <<>>

\* C2: a request whose api_key token cannot be decrypted fails with a 4xx
\* status and a generic message; no upload is written, no upstream is called.
C2_UndecryptableKeyIs4xx ==
    \A r \in Handled :
        (/\ HasFile(req[r])
         /\ ~Falsy(req[r].api_key)
         /\ ~decrypt_api_key(req[r].api_key[1]).ok) =>
            /\ resp[r].status \in 400..499
            /\ resp[r].body = [success |-> FALSE, error |-> "API key decryption failed"]
            /\ ~WroteAnything(r)
            /\ calls[r] = <<>>

\* C3: whenever either client returns success: true, the body carries
\* prompt_data, raw_response, token_usage and uuid, and uuid is the id of the
\* upload made by that request.
C3_SuccessBodyHasAllFields ==
    \A r \in Handled :
        resp[r].body.success =>
            /\ {"prompt_data", "raw_response", "token_usage", "uuid"}
                  \subseteq DOMAIN resp[r].body
            /\ resp[r].body.uuid = loc[r].file_uuid

\* The Gemini endpoint answered request r over HTTP.
GeminiAnswered(r) ==
    /\ Done(r)
    /\ loc[r].api_model = "gemini"
    /\ env[r].reply.kind = "http"

\* C4: when the Gemini endpoint answers with a status other than 200, the
\* response is {success: false, error, details: <upstream body>} with status
\* 500 and no result JSON file is written for the request.
C4_GeminiNon200Is500 ==
    \A r \in Requests :
        (GeminiAnswered(r) /\ env[r].reply.status # 200) =>
            /\ resp[r].status = 500
            /\ DOMAIN resp[r].body = {"success", "error", "details"}
            /\ resp[r].body.success = FALSE
            /\ resp[r].body.details = env[r].reply.text
            /\ ~WroteResult(r)

C4_Witness ==
    \E r \in Requests :
        /\ GeminiAnswered(r)
        /\ env[r].reply.status = 429
        /\ resp[r].status = 500

\* The upstream reply of request r arrived and has no text at the expected
\* place: a key is missing or a list is empty on the way (Gemini), or output
\* or content is missing or empty (Doubao).
GeminiTextMissing(r) ==
    /\ GeminiAnswered(r)
    /\ env[r].reply.status = 200
    /\ ResponseJson(env[r].reply).ok
    /\ LET nav == NavigateGemini(ResponseJson(env[r].reply).value)
       IN ~nav.ok /\ nav.exc \in {"KeyError", "IndexError"}

DoubaoAnswered(r) ==
    /\ Done(r)
    /\ loc[r].api_model = "doubao"
    /\ env[r].reply.kind = "object"

DoubaoTextMissing(r) == DoubaoAnswered(r) /\ ~DoubaoHasText(env[r].reply)

\* C5: in either variant, a reply that cannot be navigated to the text gives
\* {success: false, error, raw_response: <upstream body>} with status 500.
C5_UnparsableCarriesRawResponse ==
    \A r \in Requests :
        (GeminiTextMissing(r) \/ DoubaoTextMissing(r)) =>
            /\ resp[r].status = 500
            /\ resp[r].body.success = FALSE
            /\ "raw_response" \in DOMAIN resp[r].body

\* The text of the upstream's answer to request r, when there is one.
HasUpstreamText(r) ==
    \/ /\ GeminiAnswered(r)
       /\ env[r].reply.status = 200
       /\ ResponseJson(env[r].reply).ok
       /\ NavigateGemini(ResponseJson(env[r].reply).value).ok
    \/ DoubaoAnswered(r) /\ DoubaoHasText(env[r].reply)

UpstreamText(r) ==
    IF loc[r].api_model = "gemini"
    THEN NavigateGemini(ResponseJson(env[r].reply).value).value
    ELSE env[r].reply.output[1][1].content[1][1].text

\* The JSON documents among the model texts, with the value each denotes.
JsonValueOf(text) ==
    CASE text = <<"1">> -> Some(JNum(1))
      [] text = <<"[", "1", "]">> -> Some(JList(<<JNum(1)>>))
      [] text = <<"[", "1", ",", "[", "]", "]">> -> Some(JList(<<JNum(1), JList(<<>>)>>))
      [] OTHER -> None

\* C6: for every text t obtained from the upstream the result is success:
\* true; prompt_data is the parsed value when t is well-formed JSON and
\* exactly {raw_response: t} otherwise.
C6_PromptDataParsedOrRaw ==
    \A r \in Requests :
        HasUpstreamText(r) =>
            /\ resp[r].body.success = TRUE
            /\ resp[r].body.prompt_data =
                  (IF JsonValueOf(UpstreamText(r)) # None
                   THEN JsonValueOf(UpstreamText(r))[1]
                   ELSE RawFallback(UpstreamText(r)))

C6_Witness ==
    \E r \in Requests :
        /\ HasUpstreamText(r)
        /\ JsonValueOf(UpstreamText(r)) = None
        /\ resp[r].body.prompt_data = RawFallback(UpstreamText(r))
        /\ resp[r].body.success = TRUE

\* The response of request r had the write of its result JSON succeeded.
ResponseIfSaved(r) ==
    LET e == [env[r] EXCEPT !.persist = "ok"]
    IN IF loc[r].api_model = "gemini"
       THEN call_gemini_api(build, e, ImageToSend(loc[r].image_data), loc[r].api_key,
                            loc[r].model_version, loc[r].save_dir,
                            loc[r].unique_filename, loc[r].file_uuid).response
       ELSE call_doubao_api(build, e, ImageToSend(loc[r].image_data), loc[r].api_key,
                            loc[r].model_version, loc[r].save_dir,
                            loc[r].unique_filename, loc[r].file_uuid).response

SaveFailed(r) == Done(r) /\ env[r].persist \in {"open_err", "write_err"}

\* C7: when writing the result JSON fails after a successful upstream call,
\* the response is the success: true response, with status 200, that a
\* successful write would have given.
C7_SaveFailureKeepsResponse ==
    \A r \in Requests :
        SaveFailed(r) =>
            /\ resp[r].status = 200
            /\ resp[r].body.success = TRUE
            /\ resp[r].body.uuid = loc[r].file_uuid
            /\ resp[r] = ResponseIfSaved(r)

C7_Witness ==
    \E r \in Requests :
        /\ SaveFailed(r)
        /\ env[r].persist = "write_err"
        /\ HasUpstreamText(r)
        /\ resp[r].status = 200

UploadPath(r) == <<loc[r].save_dir, loc[r].unique_filename>>

\* C8: the bytes stored in every upload file are exactly the bytes received
\* in the request that created it; no later step rewrites or deletes it.
C8_ArchivedBytesAreReceivedBytes ==
    \A r \in Requests :
        loc[r].archived =>
            /\ UploadPath(r) \in DOMAIN files
            /\ files[UploadPath(r)] = UploadFile(req[r].image[1].data, TRUE)

Succeeded(r) == Done(r) /\ resp[r].body.success

\* C9: concurrent requests that pass validation get distinct upload ids,
\* no file is written by two requests, and each successful request's upload
\* path and result path are its own and differ from every other request's.
C9_ConcurrentRequestsDoNotCollide ==
    /\ \A r1, r2 \in Requests :
          (r1 # r2 /\ loc[r1].archived /\ loc[r2].archived) =>
              /\ loc[r1].file_uuid # loc[r2].file_uuid
              /\ UploadPath(r1) # UploadPath(r2)
              /\ DetailPath(loc[r1].save_dir, loc[r1].unique_filename)
                    # DetailPath(loc[r2].save_dir, loc[r2].unique_filename)
    /\ \A p \in DOMAIN writers : \A w1, w2 \in writers[p] : w1[1] = w2[1]
    /\ \A r \in Requests :
          (Succeeded(r) /\ env[r].persist = "ok") =>
              LET d == DetailPath(loc[r].save_dir, loc[r].unique_filename)
              IN /\ d \in DOMAIN files
                 /\ files[d].kind = "result"
                 /\ files[d].complete
                 /\ files[d].data.prompt_data = resp[r].body.prompt_data

C9_Witness ==
    \E r1, r2 \in Requests :
        /\ r1 # r2
        /\ Succeeded(r1) /\ Succeeded(r2)
        /\ env[r1].persist = "ok" /\ env[r2].persist = "ok"
        /\ req[r1].image[1].filename = req[r2].image[1].filename
        /\ loc[r1].save_dir = loc[r2].save_dir
        /\ resp[r1].body.prompt_data # resp[r2].body.prompt_data

\* C10: for every input no longer than max_size_mb * 1024 * 1024 bytes,
\* compress_image returns the input bytes unchanged, whether or not the input
\* decodes as an image and whatever its colour mode.
C10_UnderLimitReturnedUnchanged ==
    (norm.pc = "returned" /\ norm.input.len <= norm.halfmb * 524288) =>
        norm.output = norm.input

C10_Witness ==
    /\ norm.pc = "returned"
    /\ norm.input.len = norm.halfmb * 524288
    /\ ImageTable[norm.input.src].decode = "full"
    /\ norm.output = norm.input

\* The run of compress_image reached the loop and made an encoding: the input
\* is over the target and decodes.
Reencoded == norm.encodings # <<>>

\* C11: for an over-threshold decodable image the loop starts at quality 85,
\* lowers the quality by 10 per iteration and stops when the encoded size is
\* within the target or the quality reaches the floor of 10: the returned
\* bytes are no larger than the target or were encoded at quality 10, no
\* encoding is made at a quality below 10, and at most eight encodings
\* (85, 75, ..., 15) are made.
C11_LoopStopsAtFloorTen ==
    /\ Reencoded => norm.encodings[1] = 85
    /\ \A i \in DOMAIN norm.encodings :
          /\ norm.encodings[i] >= 10
          /\ i > 1 => norm.encodings[i] = norm.encodings[i - 1] - 10
    /\ Len(norm.encodings) <= 8
    /\ (norm.pc = "returned" /\ Reencoded) =>
          \/ norm.output.len <= MaxSizeBytes(norm.halfmb)
          \/ norm.output.q = 10

\* An exception other than those the handler answers itself was raised while
\* request r was handled: the upload could not be written, the upstream call
\* raised (timeout, network error, SDK error), the body of a 200 reply was no
\* JSON, or the path to the text met a value of the wrong type.
UploadWriteRaised(r) == Done(r) /\ loc[r].file_uuid # "" /\ ~loc[r].archived
UpstreamRaised(r) == Done(r) /\ env[r].reply.kind = "raise"
GeminiBodyRaised(r) ==
    /\ GeminiAnswered(r)
    /\ env[r].reply.status = 200
    /\ \/ ~ResponseJson(env[r].reply).ok
       \/ LET nav == NavigateGemini(ResponseJson(env[r].reply).value)
          IN ~nav.ok /\ nav.exc \notin {"KeyError", "IndexError"}
UnexpectedlyRaised(r) ==
    UploadWriteRaised(r) \/ UpstreamRaised(r) \/ GeminiBodyRaised(r)

MissingKey(in) == HasFile(in) /\ Falsy(in.api_key)
UndecryptableKey(in) ==
    HasFile(in) /\ ~Falsy(in.api_key) /\ ~decrypt_api_key(in.api_key[1]).ok
UnsupportedProvider(in) ==
    HasFile(in) /\ in.api_model # None /\ in.api_model[1] \notin {"gemini", "doubao"}

\* C13: the handler validates the file, then the key token and the provider,
\* then decrypts, then persists the upload, then normalizes (only above
\* 3 MiB), then dispatches: no upload file is written for a request rejected
\* for a missing key, an undecryptable key or an unsupported provider, the
\* upload is persisted before any upstream call, and bytes of at most 3 MiB
\* are sent as received.
C13_ValidationBeforeUploadWrite ==
    \A r \in Requests :
        /\ (Done(r) /\ (MissingKey(req[r]) \/ UndecryptableKey(req[r])
                          \/ UnsupportedProvider(req[r]))) =>
              /\ ~WroteAnything(r)
              /\ calls[r] = <<>>
        /\ calls[r] # <<>> =>
              /\ loc[r].archived
              /\ <<r, "upload">> \in writers[UploadPath(r)]
              /\ loc[r].image_data.len <= 3 * 1024 * 1024 =>
                    calls[r][1].image = b64encode(loc[r].image_data)

\* The upstream call of request r failed: it raised (timeout, network or SDK
\* error), answered with a status other than 200, or its reply was malformed
\* (no JSON, or no text at the expected place).
UpstreamFailed(r) ==
    \/ UpstreamRaised(r)
    \/ GeminiAnswered(r) /\ env[r].reply.status # 200
    \/ GeminiBodyRaised(r)
    \/ GeminiTextMissing(r)
    \/ DoubaoTextMissing(r)

\* C14: each request issues at most one upstream call; a failed upstream call
\* is the only call of its request and is answered success: false.
C14_AtMostOneUpstreamCall ==
    \A r \in Requests :
        /\ Len(calls[r]) <= 1
        /\ UpstreamFailed(r) =>
              /\ Len(calls[r]) = 1
              /\ resp[r].body.success = FALSE
              /\ resp[r].status >= 400

C14_Witness ==
    \E r \in Requests :
        /\ UpstreamFailed(r)
        /\ DoubaoAnswered(r) \/ env[r].reply.kind = "raise"
        /\ loc[r].api_model = "doubao"
        /\ Len(calls[r]) = 1
        /\ resp[r].body.success = FALSE

\* The result JSON files on disk, and the paths request r wrote a result to.
ResultPaths == {p \in DOMAIN files : files[p].kind = "result"}
ResultPathsOf(r) == {p \in DOMAIN writers : <<r, "result">> \in writers[p]}

\* An upload file of id file_uuid exists in day directory save_dir.
UploadExists(save_dir, file_uuid) ==
    \E q \in DOMAIN files :
        /\ files[q].kind = "upload"
        /\ q[1] = save_dir
        /\ q[2] # <<>> /\ q[2][1] = file_uuid

\* C15: every result JSON file lies in the day directory of an existing
\* upload file and is named <id>.json after that upload's id, the uuid of the
\* response; a request writes a result file at most once, only after the
\* upstream call produced a navigable text, and never when it answers
\* success: false.
C15_ResultFileBesideItsUpload ==
    /\ \A p \in ResultPaths :
          \E r \in Requests :
              /\ p \in ResultPathsOf(r)
              /\ p = <<loc[r].save_dir, <<loc[r].file_uuid>> \o JsonSuffix>>
              /\ UploadExists(p[1], loc[r].file_uuid)
              /\ resp[r].body.uuid = loc[r].file_uuid
    /\ \A r \in Requests :
          /\ Cardinality(ResultPathsOf(r)) <= 1
          /\ WroteResult(r) =>
                /\ calls[r] # <<>>
                /\ HasUpstreamText(r)
                /\ Succeeded(r)

\* A configuration file that cannot be read: it is missing, unreadable or
\* not UTF-8.
ReadFails(f) == f.open # "ok" \/ f.read # "ok"

\* C16: the configuration loader never fails the process: whenever the
\* prompt file or the dialogs file cannot be read, or the dialogs file is not
\* well-formed JSON, the loader returns its hardcoded default, and no
\* exception escapes at start-up.
C16_LoadersFallBackToDefaults ==
    /\ proc.traceback = ""
    /\ (proc.prompt_file # None /\ ReadFails(proc.prompt_file[1])) =>
          proc.SYSTEM_PROMPT = Some(DefaultPrompt)
    /\ (proc.dialogs_file # None
          /\ (ReadFails(proc.dialogs_file[1])
                \/ ~json_loads(proc.dialogs_file[1].text).ok)) =>
          proc.IMITATION_DIALOGS = Some(DefaultDialogs)

\* C17: the service serves only after both start-up probes succeeded, in
\* order: the TCP probe to the proxy, then the public host through the proxy;
\* after a failed probe the process has exited with a failure status, no
\* further probe is made and no request is handled.
C17_ServesOnlyAfterBothProbes ==
    LET passed == <<Probe("proxy", TRUE), Probe("internet", TRUE)>>
        failed == \E i \in DOMAIN proc.probes : ~proc.probes[i].ok
    IN /\ proc.pc = "serving" => proc.probes = passed
       /\ \A r \in Requests : pc[r] # "idle" => proc.probes = passed
       /\ \A i \in DOMAIN proc.probes :
             /\ proc.probes[i].probe = passed[i].probe
             /\ ~proc.probes[i].ok => i = Len(proc.probes)
       /\ failed =>
             /\ proc.pc = "exited"
             /\ proc.exit_status # None /\ proc.exit_status[1] # 0

====
